---- MODULE Spec2Model ----
(***************************************************************************)
(* A model of the ErcasPay gateway client (Ercaspay.js), its card          *)
(* encryptor (Utils/CardEncryptor.js) and the device DTOs (Types/*.js).    *)
(*                                                                         *)
(* The repository holds two snapshots of these five files.  Snapshot "A"   *)
(* is the set of files that carry the author header (part_001, part_003,   *)
(* the first Device of part_005, src/Types/BrowserDetails.js); snapshot    *)
(* "B" is the set without it (part_000, part_002, part_004, the first      *)
(* BrowserDetails and the last Device of part_005).  The variable          *)
(* `snapshot` says which of the two is running.                            *)
(***************************************************************************)
EXTENDS Integers, Sequences, FiniteSets, TLC

VARIABLES
    snapshot,   \* which snapshot of the sources is running: "A" or "B"
    fs,         \* the file system: key path -> state of the file there
    client,     \* the axios instance built by #initializeClient
    calls,      \* call slot -> the client call occupying it
    encryptor,  \* the CardEncryptor instance of the encryptor harness
    encOut,     \* outcome of the harness's last constructor / encrypt call
    derived     \* outcome of the last DTO derivation from a request

vars == <<snapshot, fs, client, calls, encryptor, encOut, derived>>

Snapshots == {"A", "B"}

(***************************************************************************)
(* JavaScript values.                                                      *)
(***************************************************************************)
Undefined == [t |-> "undefined"]
Null == [t |-> "null"]
Str(s) == [t |-> "string", v |-> s]
\* A string held as its sequence of characters.
Chars(c) == [t |-> "string", c |-> c]
IsChars(x) == x.t = "string" /\ "c" \in DOMAIN x
Num(n) == [t |-> "number", v |-> n]
Bool(b) == [t |-> "boolean", v |-> b]
Obj(r) == [t |-> "object", v |-> r]

\* JavaScript truthiness, as `||`, `!` and `if` see it.
Truthy(x) ==
    CASE x.t = "undefined" -> FALSE
      [] x.t = "null" -> FALSE
      [] x.t = "string" -> IF IsChars(x) THEN x.c # << >> ELSE x.v # ""
      [] x.t = "number" -> x.v # 0
      [] x.t = "boolean" -> x.v
      [] OTHER -> TRUE

\* a || b
Or(a, b) == IF Truthy(a) THEN a ELSE b

IsNullish(x) == x.t \in {"undefined", "null"}

HasProp(x, p) == x.t = "object" /\ p \in DOMAIN x.v

\* x[p] for a value that is not null or undefined: a primitive has no own
\* property of these names, so the read gives undefined.
Get(x, p) == IF HasProp(x, p) THEN x.v[p] ELSE Undefined

\* String(x) of a template literal `${x}` for the values used in paths.
ToStr(x) ==
    CASE x.t = "undefined" -> "undefined"
      [] x.t = "null" -> "null"
      [] x.t = "string" -> x.v
      [] OTHER -> "[object Object]"

(***************************************************************************)
(* Text as a sequence of characters: the card fields, their JSON           *)
(* serialization and the base64 output are handled character by character. *)
(***************************************************************************)
Digits == <<"0", "1", "2", "3", "4", "5", "6", "7", "8", "9">>
LowerLetters ==
    <<"a", "b", "c", "d", "e", "f", "g", "h", "i", "j", "k", "l", "m",
      "n", "o", "p", "q", "r", "s", "t", "u", "v", "w", "x", "y", "z">>
UpperLetters ==
    <<"A", "B", "C", "D", "E", "F", "G", "H", "I", "J", "K", "L", "M",
      "N", "O", "P", "Q", "R", "S", "T", "U", "V", "W", "X", "Y", "Z">>

IndexOf(seq, c) == CHOOSE i \in 1..Len(seq) : seq[i] = c
Occurs(seq, c) == \E i \in 1..Len(seq) : seq[i] = c

\* The UTF-8 byte of an ASCII character (Buffer.from(string) in Node).
Utf8Byte(c) ==
    CASE Occurs(Digits, c) -> 47 + IndexOf(Digits, c)
      [] Occurs(UpperLetters, c) -> 64 + IndexOf(UpperLetters, c)
      [] Occurs(LowerLetters, c) -> 96 + IndexOf(LowerLetters, c)
      [] c = "\"" -> 34
      [] c = "," -> 44
      [] c = ":" -> 58
      [] c = "{" -> 123
      [] c = "}" -> 125
      [] OTHER -> 63

BufferFrom(chars) == [i \in 1..Len(chars) |-> Utf8Byte(chars[i])]

Rep(c, n) == [i \in 1..n |-> c]

UndefinedChars == <<"u", "n", "d", "e", "f", "i", "n", "e", "d">>

\* `${x}` for a card field held as characters.
ToChars(x) ==
    CASE x.t = "string" -> x.c
      [] x.t = "undefined" -> UndefinedChars
      [] OTHER -> <<"n", "u", "l", "l">>

(***************************************************************************)
(* JSON.stringify of an object whose properties are given in insertion     *)
(* order: a property whose value is undefined is left out, a string is     *)
(* quoted (the card fields hold no character that JSON escapes).           *)
(***************************************************************************)
Prop(k, v) == [k |-> k, v |-> v]

\* A serialization that writes strings without their quotes.
JSONValueUnquoted(x) ==
    IF x.t = "string" THEN x.c ELSE <<"n", "u", "l", "l">>

JSONValue(x) ==
    IF x.t = "string" THEN <<"\"">> \o x.c \o <<"\"">>
    ELSE <<"n", "u", "l", "l">>

JSONProp(p) == <<"\"">> \o p.k \o <<"\"", ":">> \o JSONValue(p.v)

RECURSIVE JSONJoin(_)
JSONJoin(props) ==
    IF props = << >> THEN << >>
    ELSE IF Len(props) = 1 THEN JSONProp(props[1])
    ELSE JSONProp(props[1]) \o <<",">> \o JSONJoin(Tail(props))

IsDefined(p) == p.v.t # "undefined"

JSONStringify(props) ==
    <<"{">> \o JSONJoin(SelectSeq(props, IsDefined)) \o <<"}">>

(***************************************************************************)
(* Files.  The text of a key file is a sequence of tokens; the letters     *)
(* "RSA" occur in a text only as the token "RSA", so that                  *)
(* String.prototype.replace('RSA', '') is the removal of the first such    *)
(* token.                                                                  *)
(***************************************************************************)
Absent == [exists |-> FALSE]
File(text, readable) == [exists |-> TRUE, readable |-> readable, text |-> text]

Whitespace == {" ", "\n", "    "}

RECURSIVE ReplaceFirst(_, _)
\* text.replace(tok, ''): only the first occurrence goes.
ReplaceFirst(text, tok) ==
    IF text = << >> THEN << >>
    ELSE IF Head(text) = tok THEN Tail(text)
    ELSE <<Head(text)>> \o ReplaceFirst(Tail(text), tok)

RECURSIVE TrimStart(_)
TrimStart(text) ==
    IF text # << >> /\ Head(text) \in Whitespace THEN TrimStart(Tail(text))
    ELSE text

RECURSIVE TrimEnd(_)
TrimEnd(text) ==
    IF text # << >> /\ text[Len(text)] \in Whitespace
    THEN TrimEnd(SubSeq(text, 1, Len(text) - 1))
    ELSE text

Trim(text) == TrimEnd(TrimStart(text))

(***************************************************************************)
(* RSA public keys and their PEM files.  "spki" is the generic             *)
(* "PUBLIC KEY" form, "pkcs1" the "RSA PUBLIC KEY" form; Node imports      *)
(* either.  `mask` stands for the key material.                            *)
(***************************************************************************)
PemHeader(form) ==
    IF form = "spki" THEN <<"-----BEGIN ", "PUBLIC KEY-----">>
    ELSE <<"-----BEGIN ", "RSA", " ", "PUBLIC KEY-----">>

PemFooter(form) ==
    IF form = "spki" THEN <<"-----END ", "PUBLIC KEY-----">>
    ELSE <<"-----END ", "RSA", " ", "PUBLIC KEY-----">>

Pem(key) ==
    PemHeader(key.form) \o <<"\n">> \o key.body \o <<"\n">> \o PemFooter(key.form)

\* The 2048-bit key of tests/CardEncryptor.test.js.
TestKey ==
    [form |-> "spki", bits |-> 2048, mask |-> 91,
     body |-> <<"MIIBIjANBgkqhkiG9w0BAQEFAAOCAQ8AMIIBCgKCAQEAoLUWhs/7kVxZqJxJ1NEb",
                "\n", "DQIDAQAB">>]

\* A 2048-bit key whose base64 body happens to contain the letters RSA.
KeyWithRsaInBody ==
    [form |-> "spki", bits |-> 2048, mask |-> 17,
     body |-> <<"MIIBIjANBgkqhkiG9w0BAQEFAAOCAQ8AMIIBCgKCAQEAx7", "RSA", "k2Lq",
                "\n", "DQIDAQAB">>]

\* A 2048-bit key in the "RSA PUBLIC KEY" form.
Pkcs1Key ==
    [form |-> "pkcs1", bits |-> 2048, mask |-> 203,
     body |-> <<"MIIBCgKCAQEAoLUWhs/7kVxZqJxJ1NEb1sZWpdmd4NL/iMhVpZ3cBPYhHwZEfP0M",
                "\n", "DQIDAQAB">>]

\* A 1024-bit key.
SmallKey ==
    [form |-> "spki", bits |-> 1024, mask |-> 140,
     body |-> <<"MIGfMA0GCSqGSIb3DQEBAQUAA4GNADCBiQKBgQC7", "\n", "IDAQAB">>]

KnownKeys == {TestKey, KeyWithRsaInBody, Pkcs1Key, SmallKey}

ModulusBytes(key) == key.bits \div 8

\* The key a PEM text imports as, if any (the PEM reader of Node's crypto):
\* the text has to be a well-formed PEM of the key, markers first.
Importable(text) == \E key \in KnownKeys : Pem(key) = text
ImportKey(text) == CHOOSE key \in KnownKeys : Pem(key) = text

(***************************************************************************)
(* crypto.publicEncrypt with RSA_PKCS1_PADDING.  The encryption block is   *)
(* 00 02 PS 00 M with PS at least eight nonzero random bytes, so M may     *)
(* hold at most k - 11 bytes for a modulus of k bytes; the ciphertext has  *)
(* k bytes.  The modular exponentiation is stood for by a byte-wise        *)
(* bijection that depends on the key.                                      *)
(***************************************************************************)
PadByte(pad, i) == 1 + ((pad + 7 * i) % 255)

EncryptionBlock(k, buffer, pad) ==
    <<0, 2>> \o [i \in 1..(k - 3 - Len(buffer)) |-> PadByte(pad, i)]
             \o <<0>> \o buffer

RsaPermute(key, block) ==
    [i \in 1..Len(block) |-> (block[i] + key.mask + i) % 256]

Ok(v) == [ok |-> TRUE, value |-> v]
Fail(message) == [ok |-> FALSE, message |-> message]

\* An encryption that cuts a long message down to what the key can hold.
PublicEncryptTruncating(text, buffer, pad) ==
    IF ~(\E key \in KnownKeys : Pem(key) = text)
    THEN Fail("error:1E08010C:DECODER routines::unsupported")
    ELSE LET key == CHOOSE key \in KnownKeys : Pem(key) = text
             k == key.bits \div 8
             kept == IF Len(buffer) > k - 11 THEN SubSeq(buffer, 1, k - 11)
                     ELSE buffer
         IN Ok([i \in 1..k |->
                  ((<<0, 2>> \o [j \in 1..(k - 3 - Len(kept)) |-> 1 + ((pad + 7 * j) % 255)]
                         \o <<0>> \o kept)[i] + key.mask + i) % 256])

PublicEncrypt(text, buffer, pad) ==
    IF ~Importable(text)
    THEN Fail("error:1E08010C:DECODER routines::unsupported")
    ELSE LET key == ImportKey(text)
             k == ModulusBytes(key)
         IN IF Len(buffer) > k - 11
            THEN Fail("error:0200006E:rsa routines::data too large for key size")
            ELSE Ok(RsaPermute(key, EncryptionBlock(k, buffer, pad)))

(***************************************************************************)
(* Buffer.prototype.toString('base64'): three bytes give four characters   *)
(* of the standard alphabet, the last group padded with "=".               *)
(***************************************************************************)
Base64Alphabet == UpperLetters \o LowerLetters \o Digits \o <<"+", "/">>

Base64Char(bytes, j) ==
    LET n == Len(bytes)
        q == (j - 1) \div 4
        r == (j - 1) % 4
        b0 == bytes[3 * q + 1]
        b1 == IF 3 * q + 2 <= n THEN bytes[3 * q + 2] ELSE 0
        b2 == IF 3 * q + 3 <= n THEN bytes[3 * q + 3] ELSE 0
        word == b0 * 65536 + b1 * 256 + b2
        sextet == CASE r = 0 -> word \div 262144
                    [] r = 1 -> (word \div 4096) % 64
                    [] r = 2 -> (word \div 64) % 64
                    [] OTHER -> word % 64
    IN IF (r = 2 /\ 3 * q + 2 > n) \/ (r = 3 /\ 3 * q + 3 > n) THEN "="
       ELSE Base64Alphabet[sextet + 1]

ToBase64(bytes) ==
    [j \in 1..(4 * ((Len(bytes) + 2) \div 3)) |-> Base64Char(bytes, j)]

(***************************************************************************)
(* Outcomes of a call and the errors it throws.  Every error of the code   *)
(* is a plain Error; `site` names the throw statement it comes from, and   *)
(* the properties the code does not set are undefined.                     *)
(***************************************************************************)
Return(v) == [kind |-> "return", value |-> v]
Throw(e) == [kind |-> "throw", error |-> e]

Error(site, message) ==
    [site |-> site, message |-> message,
     statusCode |-> Undefined, responseData |-> Undefined]

TypeError(message) == Error("TypeError", message)

(***************************************************************************)
(* CardEncryptor (Utils/CardEncryptor.js; the same text in both snapshots).*)
(***************************************************************************)
ExistsSync(path) == path \in DOMAIN fs /\ fs[path].exists

Readable(path) == ExistsSync(path) /\ fs[path].readable

\* A constructor that binds to the path without looking at the disk.
CardEncryptorNewUnchecked(publicKeyPath) ==
    Return([publicKeyPath |-> publicKeyPath])

\* new CardEncryptor(publicKeyPath)
CardEncryptorNew(publicKeyPath) ==
    IF ~ExistsSync(publicKeyPath)
    THEN Throw(Error("KeyNotFound", "Public key file not found: " \o publicKeyPath))
    ELSE Return([publicKeyPath |-> publicKeyPath])

\* A read that answers from the file as it was when the encryptor of the
\* harness was constructed.
ReadFileSyncCached(path) ==
    IF encryptor.madeWith.exists /\ encryptor.madeWith.readable
    THEN Ok(encryptor.madeWith.text)
    ELSE Fail("EACCES: permission denied, open '" \o path \o "'")

\* fs.readFileSync(path, 'utf8'): the text on disk now, or an exception.
ReadFileSync(path) ==
    IF Readable(path) THEN Ok(fs[path].text)
    ELSE IF ExistsSync(path)
    THEN Fail("EACCES: permission denied, open '" \o path \o "'")
    ELSE Fail("ENOENT: no such file or directory, open '" \o path \o "'")

\* The PEM text handed to crypto.publicEncrypt.
NormalizePem(text) == Trim(ReplaceFirst(text, "RSA"))

\* encryptor.encrypt(cardParams); pad is the randomness of the padding.
CardEncryptorEncrypt(this, cardParams, pad) ==
    IF ~ReadFileSync(this.publicKeyPath).ok
    THEN Throw(Error("KeyReadError",
                     "Failed to read public key file: " \o this.publicKeyPath))
    ELSE LET publicKey == NormalizePem(ReadFileSync(this.publicKeyPath).value)
             cardJson == JSONStringify(cardParams)
             encrypted == PublicEncrypt(publicKey, BufferFrom(cardJson), pad)
         IN IF encrypted.ok
            THEN Return(Chars(ToBase64(encrypted.value)))
            ELSE Throw(Error("EncryptionError",
                             "Encryption failed: " \o encrypted.message))

(***************************************************************************)
(* The encryptor on its own, as tests/CardEncryptor.test.js drives it: a   *)
(* key file at a path, one CardEncryptor bound to it, encrypt calls.       *)
(***************************************************************************)
TestKeyPath == "tests/test_public_key.pem"

\* The file the test writes: the PEM indented and wrapped in blank lines.
TestKeyFileText == <<"\n", "    ">> \o Pem(TestKey) \o <<"\n">>

HarnessFiles ==
    { Absent,
      File(TestKeyFileText, TRUE),
      File(TestKeyFileText, FALSE),
      File(Pem(TestKey), TRUE),
      File(Pem(SmallKey), TRUE),
      File(Pem(Pkcs1Key), TRUE),
      File(Pem(KeyWithRsaInBody), TRUE),
      File(<<"not a key">>, TRUE) }

PanKey == <<"p", "a", "n">>
ExpiryDateKey == <<"e", "x", "p", "i", "r", "y", "D", "a", "t", "e">>
CvvKey == <<"c", "v", "v">>
PinKey == <<"p", "i", "n">>

\* The card of the test, with a card number of n digits.
TestCard(n) ==
    << Prop(PanKey, Chars(<<"4">> \o Rep("1", n - 1))),
       Prop(ExpiryDateKey, Chars(<<"1", "2", "2", "5">>)),
       Prop(CvvKey, Chars(<<"1", "2", "3">>)),
       Prop(PinKey, Chars(<<"1", "2", "3", "4">>)) >>

\* Card-number lengths: the test's 16 digits, and the lengths that put the
\* JSON text just at and just over 117, 190 and 245 bytes.
PanLengths == {16, 62, 63, 135, 136, 190, 191}

HarnessCards == {TestCard(n) : n \in PanLengths}

\* Randomness of the PKCS#1 padding.
Pads == {3, 200}

NoEncryptor == [bound |-> FALSE]
NoOutcome == [op |-> "none"]

EncConstruct ==
    /\ ~encryptor.bound
    /\ LET out == CardEncryptorNew(TestKeyPath)
       IN /\ encOut' = [op |-> "new", out |-> out]
          /\ encryptor' = IF out.kind = "return"
                          THEN [bound |-> TRUE, this |-> out.value,
                                madeWith |-> fs[TestKeyPath]]
                          ELSE encryptor
    /\ UNCHANGED <<snapshot, fs, client, calls, derived>>

EncEncrypt ==
    /\ encryptor.bound
    /\ \E cardParams \in HarnessCards, pad \in Pads :
          encOut' = [op |-> "encrypt", cardParams |-> cardParams,
                     key |-> fs[encryptor.this.publicKeyPath],
                     out |-> CardEncryptorEncrypt(encryptor.this, cardParams, pad)]
    /\ UNCHANGED <<snapshot, fs, client, calls, encryptor, derived>>

(***************************************************************************)
(* BrowserDetails, Device and PayerDeviceDto (Types/*.js).  An IP address  *)
(* is text held as characters, since Device takes it apart with substr.    *)
(***************************************************************************)
EmptyObject == Obj(<< >>)

\* x[p] where the code reads a property without a guard: reading a property
\* of undefined or null is a TypeError.
Read(x, p) ==
    IF IsNullish(x)
    THEN Throw(TypeError("Cannot read properties of " \o ToStr(x)
                         \o " (reading '" \o p \o "')"))
    ELSE Return(Get(x, p))

\* BrowserDetails.fromRequest(request): the fields of the instance.
BrowserDetailsFromRequest(request) ==
    LET headers == Or(Get(request, "headers"), EmptyObject)
        acceptLanguage == Or(Get(headers, "accept-language"), Str("en-US"))
    IN [challengeWindowSize |-> Str("FULL_SCREEN"),
        acceptHeaders |-> Or(Get(headers, "accept"), Str("application/json")),
        colorDepth |-> Num(24),
        javaEnabled |-> Bool(TRUE),
        language |-> IF snapshot = "A" THEN Str("en-US") ELSE acceptLanguage,
        screenHeight |-> Num(473),
        screenWidth |-> Num(1600),
        timeZone |-> Num(273)]

\* browserDetails.toArray()
BrowserDetailsToArray(this) ==
    Obj(("3DSecureChallengeWindowSize" :> this.challengeWindowSize)
        @@ [acceptHeaders |-> this.acceptHeaders,
            colorDepth |-> this.colorDepth,
            javaEnabled |-> this.javaEnabled,
            language |-> this.language,
            screenHeight |-> this.screenHeight,
            screenWidth |-> this.screenWidth,
            timeZone |-> this.timeZone])

Ipv4MappedPrefix == <<":", ":", "f", "f", "f", "f", ":">>
Localhost == Chars(<<"1", "2", "7", ".", "0", ".", "0", ".", "1">>)

\* ip.substr(from) and ip.substr(0, n) on text held as characters.
SubstrFrom(chars, from) == SubSeq(chars, from + 1, Len(chars))
SubstrTo(chars, n) == SubSeq(chars, 1, IF n < Len(chars) THEN n ELSE Len(chars))

StripMapped(ip) ==
    IF SubstrTo(ip.c, 7) = Ipv4MappedPrefix
    THEN Chars(SubstrFrom(ip.c, 7))
    ELSE ip

\* Device.fromRequest(request) of snapshot A (part_005, lines 72-84).
DeviceFromRequestA(request) ==
    LET headers == Get(request, "headers")
        forwarded == Read(headers, "x-forwarded-for")
        agent == Read(headers, "user-agent")
    IN IF ~Truthy(Get(request, "ip")) /\ forwarded.kind = "throw" THEN forwarded
       ELSE IF agent.kind = "throw" THEN agent
       ELSE LET ip == IF Truthy(Get(request, "ip")) THEN Get(request, "ip")
                      ELSE Or(forwarded.value, Localhost)
            IN Return([browser |-> Or(agent.value, Str("Unknown")),
                       browserDetails |-> BrowserDetailsFromRequest(request),
                       ipAddress |-> StripMapped(ip)])

\* Device.fromRequest(request) of snapshot B (part_005, lines 107-113): the
\* constructor is handed `userAgent`, a property it does not read, so
\* `browser` stays undefined.
DeviceFromRequestB(request) ==
    LET agent == Read(Get(request, "headers"), "user-agent")
        remote == Read(Get(request, "connection"), "remoteAddress")
    IN IF agent.kind = "throw" THEN agent
       ELSE IF ~Truthy(Get(request, "ip")) /\ remote.kind = "throw" THEN remote
       ELSE LET ip == IF Truthy(Get(request, "ip")) THEN Get(request, "ip")
                      ELSE Or(remote.value, Localhost)
            IN Return([browser |-> Undefined,
                       browserDetails |-> BrowserDetailsFromRequest(request),
                       ipAddress |-> ip])

DeviceFromRequest(request) ==
    IF snapshot = "A" THEN DeviceFromRequestA(request)
    ELSE DeviceFromRequestB(request)

\* device.toArray()
DeviceToArray(this) ==
    Obj([browser |-> this.browser,
         browserDetails |-> BrowserDetailsToArray(this.browserDetails),
         ipAddress |-> this.ipAddress])

\* PayerDeviceDto.fromRequest(request): the instance, {device}.
PayerDeviceDtoFromRequest(request) ==
    LET device == DeviceFromRequest(request)
    IN IF device.kind = "throw" THEN device
       ELSE Return([device |-> device.value])

\* payerDeviceDto.toArray()
PayerDeviceDtoToArray(this) ==
    Obj([payerDeviceDto |-> Obj([device |-> DeviceToArray(this.device)])])

\* An instance handed to axios as it is: its own fields, nested.
PayerDeviceDtoInstance(this) ==
    Obj([device |->
           Obj([browser |-> this.device.browser,
                browserDetails |-> Obj(this.device.browserDetails),
                ipAddress |-> this.device.ipAddress])])

(***************************************************************************)
(* The gateway client (Ercaspay.js).                                       *)
(***************************************************************************)
\* The configuration of tests/Ercaspay.test.js.
TestConfig ==
    [baseURL |-> "https://api.merchant.staging.ercaspay.com",
     secretKey |-> "ECRS-TEST-SK9suJneFkk1o8gBaUmOHCBIt9jRWN88QbaKAvoBRu"]

\* The constructor's `verifySsl = true` (part_000 only): the default stands
\* in for a property that is missing or undefined.
VerifySsl(config) ==
    IF "verifySsl" \in DOMAIN config /\ config.verifySsl.t # "undefined"
    THEN config.verifySsl
    ELSE Bool(TRUE)

\* The httpsAgent handed to axios.create.  Snapshot A hands none.  Snapshot B
\* hands undefined (axios' default agent, which verifies certificates) when
\* verifySsl is truthy, and otherwise evaluates `new https.Agent(...)` in a
\* file that never requires `https`.
HttpsAgent(config) ==
    IF snapshot = "A" \/ Truthy(VerifySsl(config))
    THEN Return(Undefined)
    ELSE Throw(Error("ReferenceError", "https is not defined"))

\* An instance created without the Authorization header.
InitializeClientNoAuth(config) ==
    [baseURL |-> config.baseURL,
     headers |-> ("Content-Type" :> "application/json")
                 @@ [Accept |-> "application/json"],
     httpsAgent |-> HttpsAgent(config).value]

\* #initializeClient(): the axios instance, where creating it succeeds.
InitializeClient(config) ==
    [baseURL |-> config.baseURL,
     headers |-> ("Content-Type" :> "application/json")
                 @@ [Authorization |-> "Bearer " \o config.secretKey,
                     Accept |-> "application/json"],
     httpsAgent |-> HttpsAgent(config).value]

\* new ErcasPay(config): the client it leaves in this.client, or the
\* exception of #initializeClient.
ErcasPayNew(config) ==
    IF HttpsAgent(config).kind = "throw" THEN HttpsAgent(config)
    ELSE Return(InitializeClient(config))

\* method.toLowerCase() for the verbs drawn here.
ToLowerCase(method) ==
    CASE method = "GET" -> "get"
      [] method = "POST" -> "post"
      [] method = "TRACE" -> "trace"
      [] OTHER -> method

\* The request methods of an axios instance: with and without a body.
AxiosBodyMethods == {"post", "put", "patch"}
AxiosNoBodyMethods == {"get", "delete", "head", "options"}

\* An instance whose every method takes its second argument as the body.
AxiosRequestBodyAlways(name, relativeUrl, data) ==
    [method |-> name,
     baseURL |-> client.baseURL,
     url |-> relativeUrl,
     headers |-> client.headers,
     httpsAgent |-> client.httpsAgent,
     data |-> data]

\* this.client[name](relativeUrl, data): the request put on the wire.  The
\* second argument is the body for post/put/patch and the request config
\* for the others, which send no body.
AxiosRequest(name, relativeUrl, data) ==
    [method |-> name,
     baseURL |-> client.baseURL,
     url |-> relativeUrl,
     headers |-> client.headers,
     httpsAgent |-> client.httpsAgent,
     data |-> IF name \in AxiosBodyMethods THEN data ELSE Undefined]

GenericApiMessage(relativeUrl) ==
    "An error occurred while calling the Ercaspay API on path: " \o relativeUrl

GenericRequestMessage(relativeUrl) ==
    "An unexpected error occurred while making the API request on path: "
        \o relativeUrl

\* catch (error) with error.response set: the server answered, not with 2xx.
OnErrorResponse(relativeUrl, response) ==
    IF snapshot = "A"
    THEN LET errorMessage == IF IsNullish(response.data) THEN Undefined
                             ELSE Get(response.data, "errorMessage")
         IN Throw([site |-> "ApiError",
                   message |-> IF Truthy(errorMessage) THEN ToStr(errorMessage)
                               ELSE GenericApiMessage(relativeUrl),
                   statusCode |-> Num(response.status),
                   responseData |-> response.data])
    ELSE LET errorMessage == Read(response.data, "errorMessage")
         IN IF errorMessage.kind = "throw" THEN errorMessage
            ELSE Throw(Error("ApiError",
                             IF Truthy(errorMessage.value)
                             THEN ToStr(errorMessage.value)
                             ELSE GenericApiMessage(relativeUrl)))

\* catch (error) without error.response: `message` is error.message.
OnNoResponse(relativeUrl, message) ==
    LET text == IF message # "" THEN message
                ELSE GenericRequestMessage(relativeUrl)
    IN IF snapshot = "A"
       THEN Throw([site |-> "ApiError", message |-> text,
                   statusCode |-> Num(500), responseData |-> Null])
       ELSE Throw(Error("ApiError", text))

\* A guard that lets every verb through.
MethodNeverMissing(method) == FALSE

\* `if (!method)` of #makeRequest.
MethodMissing(method) == ~Truthy(method)

\* #makeRequest(relativeUrl, method, data) up to its await: either the call
\* is over (`out`) or one request is on the wire (`sent`).  A verb that
\* names no method of the axios instance (or has no toLowerCase) makes the
\* call inside `try` a TypeError, which the `catch` treats as a request
\* without response.
\* A dispatch that puts its request on the wire twice.
MakeRequestTwice(relativeUrl, method, data) ==
    [sent |-> <<AxiosRequest("post", relativeUrl, data),
                AxiosRequest("post", relativeUrl, data)>>,
     url |-> relativeUrl]

MakeRequest(relativeUrl, method, data) ==
    LET body == IF data.t = "undefined" THEN EmptyObject ELSE data
    IN IF MethodMissing(method)
       THEN [sent |-> << >>,
             out |-> Throw(Error("InvalidMethodError", "Method cannot be empty"))]
       ELSE LET name == IF method.t = "string" THEN ToLowerCase(method.v)
                        ELSE "toLowerCase"
            IN IF name \in AxiosBodyMethods \cup AxiosNoBodyMethods
               THEN [sent |-> <<AxiosRequest(name, relativeUrl, body)>>,
                     url |-> relativeUrl]
               ELSE [sent |-> << >>,
                     out |-> OnNoResponse(relativeUrl,
                                          "this.client[method.toLowerCase(...)] is not a function")]

\* After `await this.#makeRequest(...)` has given `response`: what the public
\* method does with it before returning it.
AfterResponse(op, response) ==
    IF op = "getBankListForUssd"
    THEN LET banks == Read(response, "responseBody")
         IN IF banks.kind = "throw" THEN banks ELSE Return(response)
    ELSE Return(response)

\* `${__dirname}/key/...` of initiateCardTransaction.
BundledKeyPath ==
    IF snapshot = "A" THEN "src/key/rsa_public_key.pub"
    ELSE "src/key/public_key.pem"

Ended(out) == [sent |-> << >>, out |-> out]

\* The object handed to encryptor.encrypt by initiateCardTransaction.
CardParams(p) ==
    << Prop(CvvKey, p.cardCvv),
       Prop(PinKey, p.pin),
       Prop(ExpiryDateKey,
            Chars(ToChars(p.cardExpiryMonth) \o ToChars(p.cardExpiryYear))),
       Prop(PanKey, p.cardNumber) >>

\* What initiateCardTransaction turns the device DTO into.
DeviceDetails(dto) ==
    IF snapshot = "A" THEN PayerDeviceDtoToArray(dto)
    ELSE PayerDeviceDtoInstance(dto)

\* A card call that builds the encryptor before it looks at the request.
InitiateCardStepKeyFirst(p, pad) ==
    LET dto == PayerDeviceDtoFromRequest(p.request)
        made == CardEncryptorNew(BundledKeyPath)
    IN IF made.kind = "throw" THEN Ended(made)
       ELSE IF dto.kind = "throw" THEN Ended(dto)
       ELSE LET encryptedCard ==
                    CardEncryptorEncrypt(made.value, CardParams(p), pad)
            IN IF encryptedCard.kind = "throw" THEN Ended(encryptedCard)
               ELSE MakeRequest("/api/v1/payment/cards/initialize", Str("POST"),
                                Obj([transactionReference |-> p.transactionRef,
                                     payload |-> encryptedCard.value,
                                     deviceDetails |-> DeviceDetails(dto.value)]))

\* initiateCardTransaction(p) up to its await.
InitiateCardStep(p, pad) ==
    LET dto == PayerDeviceDtoFromRequest(p.request)
        made == CardEncryptorNew(BundledKeyPath)
    IN IF dto.kind = "throw" THEN Ended(dto)
       ELSE IF made.kind = "throw" THEN Ended(made)
       ELSE LET encryptedCard ==
                    CardEncryptorEncrypt(made.value, CardParams(p), pad)
            IN IF encryptedCard.kind = "throw" THEN Ended(encryptedCard)
               ELSE MakeRequest("/api/v1/payment/cards/initialize", Str("POST"),
                                Obj([transactionReference |-> p.transactionRef,
                                     payload |-> encryptedCard.value,
                                     deviceDetails |-> DeviceDetails(dto.value)]))

(***************************************************************************)
(* Calls.  A slot is idle, awaiting the answer to the request its call     *)
(* sent, or done with the call's outcome.                                  *)
(***************************************************************************)
MaxCalls == 1

CallIds == 1..MaxCalls

\* The call slots of the running client.
Slots == DOMAIN calls

Idle == [phase |-> "idle"]

NoAnswer == [kind |-> "none"]

Begin(op, args, step) ==
    IF "out" \in DOMAIN step
    THEN [phase |-> "done", op |-> op, args |-> args, sent |-> step.sent,
          answer |-> NoAnswer, out |-> step.out]
    ELSE [phase |-> "awaiting", op |-> op, args |-> args, sent |-> step.sent,
          url |-> step.url]

Invoke(c, op, args, step) ==
    /\ calls[c].phase = "idle"
    /\ calls' = [calls EXCEPT ![c] = Begin(op, args, step)]
    /\ UNCHANGED <<snapshot, fs, client, encryptor, encOut, derived>>

\* A settlement that hands the answer of one request to every call in flight.
SettleAll(c, answer, out) ==
    /\ calls[c].phase = "awaiting"
    /\ calls' = [d \in DOMAIN calls |->
                    IF calls[d].phase = "awaiting"
                    THEN [phase |-> "done", op |-> calls[d].op,
                          args |-> calls[d].args, sent |-> calls[d].sent,
                          answer |-> answer, out |-> out]
                    ELSE calls[d]]
    /\ UNCHANGED <<snapshot, fs, client, encryptor, encOut, derived>>

Settle(c, answer, out) ==
    /\ calls[c].phase = "awaiting"
    /\ calls' = [calls EXCEPT ![c] =
                    [phase |-> "done", op |-> @.op, args |-> @.args,
                     sent |-> @.sent, answer |-> answer, out |-> out]]
    /\ UNCHANGED <<snapshot, fs, client, encryptor, encOut, derived>>

(***************************************************************************)
(* Inputs of the calls.                                                    *)
(***************************************************************************)
Refs == {Str("ERCS|20241214202721|1734204441927"),
         Str("0b6f0c3e-5d8a-4c7e-9f57-1c2d3e4f5a6b")}

TransactionData ==
    {Undefined, Obj([amount |-> Str("100"), currency |-> Str("NGN")])}

BankNames == {Str("fcmb")}
PaymentReferences == {Str("ERCS|20241214202721|GW-77")}
PaymentMethods == {Str("bank-transfer")}
Otps == {Str("123456")}

\* Inbound web requests: an Express request behind no proxy, one that only
\* carries a forwarded-for header, and an object with no headers at all.
DirectRequest ==
    Obj([ip |-> Chars(Ipv4MappedPrefix
                      \o <<"2", "0", "3", ".", "0", ".", "1", "1", "3", ".", "5">>),
         headers |-> Obj(("user-agent" :> Str("Mozilla/5.0"))
                         @@ ("accept-language" :> Str("fr-FR"))
                         @@ [accept |-> Str("text/html")]),
         connection |-> Obj([remoteAddress |-> Chars(<<":", ":", "1">>)])])

ForwardedRequest ==
    Obj([headers |-> Obj(("x-forwarded-for" :>
                            Chars(<<"1", "9", "8", ".", "5", "1", ".", "1", "0",
                                    "0", ".", "7">>))
                         @@ << >>)])

BareRequest == Obj([ip |-> Chars(<<"1", "0", ".", "0", ".", "0", ".", "9">>)])

Requests == {DirectRequest, ForwardedRequest, BareRequest}

\* The card of tests/CardEncryptor.test.js, and the call of the README's
\* example, which passes the PIN as `cardPin`, so that `pin` is undefined.
CardInputs ==
    { [cardNumber |-> Chars(<<"4">> \o Rep("1", 15)),
       cardExpiryMonth |-> Chars(<<"1", "2">>),
       cardExpiryYear |-> Chars(<<"2", "5">>),
       cardCvv |-> Chars(<<"1", "2", "3">>),
       pin |-> Chars(<<"1", "2", "3", "4">>)],
      [cardNumber |-> Chars(<<"2", "5", "2", "4", "3", "5", "4", "5", "6", "4",
                              "5", "6", "7", "5", "6", "7", "5", "6", "7", "5",
                              "6", "7", "8", "7", "8", "6", "5">>),
       cardExpiryMonth |-> Chars(<<"1", "2">>),
       cardExpiryYear |-> Chars(<<"2", "0", "2", "5">>),
       cardCvv |-> Chars(<<"1", "1", "1">>),
       pin |-> Undefined] }

\* Answers of the remote service.  An empty body reaches the code as the
\* empty string, the JSON text `null` as null.
OkAnswers ==
    { [kind |-> "response", status |-> 200,
       data |-> Obj([requestSuccessful |-> Bool(TRUE),
                     responseBody |-> Str("body")])],
      [kind |-> "response", status |-> 201, data |-> Str("")],
      [kind |-> "response", status |-> 200, data |-> Null] }

ErrorAnswers ==
    { [kind |-> "response", status |-> 400,
       data |-> Obj([errorMessage |-> Str("Invalid transaction reference"),
                     requestSuccessful |-> Bool(FALSE)])],
      [kind |-> "response", status |-> 404,
       data |-> Obj([requestSuccessful |-> Bool(FALSE)])],
      [kind |-> "response", status |-> 422,
       data |-> Obj([errorMessage |-> Str("")])],
      [kind |-> "response", status |-> 502, data |-> Str("")],
      [kind |-> "response", status |-> 500, data |-> Null] }

\* error.message of a request that got no response.
FailureMessages == {"", "connect ECONNREFUSED 127.0.0.1:443"}

\* The states of the bundled key file.
BundledKeyFiles == {Absent, File(Pem(TestKey), TRUE), File(Pem(Pkcs1Key), TRUE)}

(***************************************************************************)
(* The public methods, one action each.                                    *)
(***************************************************************************)
InitiateTransaction ==
    \E c \in Slots, data \in TransactionData :
        Invoke(c, "initiateTransaction", [data |-> data],
               MakeRequest("/api/v1/payment/initiate", Str("POST"), data))

VerifyTransaction ==
    \E c \in Slots, transactionRef \in Refs :
        Invoke(c, "verifyTransaction", [transactionRef |-> transactionRef],
               MakeRequest("/api/v1/payment/transaction/verify/"
                               \o ToStr(transactionRef),
                           Str("GET"), Undefined))

InitiateBankTransfer ==
    \E c \in Slots, transactionRef \in Refs :
        Invoke(c, "initiateBankTransfer", [transactionRef |-> transactionRef],
               MakeRequest("/api/v1/payment/bank-transfer/request-bank-account/"
                               \o ToStr(transactionRef),
                           Str("GET"), Undefined))

InitiateUssdTransaction ==
    \E c \in Slots, transactionRef \in Refs, bankName \in BankNames :
        Invoke(c, "initiateUssdTransaction",
               [transactionRef |-> transactionRef, bankName |-> bankName],
               MakeRequest("/api/v1/payment/ussd/request-ussd-code/"
                               \o ToStr(transactionRef),
                           Str("POST"), Obj([bank_name |-> bankName])))

GetBankListForUssd ==
    \E c \in Slots :
        Invoke(c, "getBankListForUssd", << >>,
               MakeRequest("/api/v1/payment/ussd/supported-banks",
                           Str("GET"), Undefined))

FetchTransactionDetails ==
    \E c \in Slots, transactionRef \in Refs :
        Invoke(c, "fetchTransactionDetails", [transactionRef |-> transactionRef],
               MakeRequest("/api/v1/payment/details/" \o ToStr(transactionRef),
                           Str("GET"), Undefined))

FetchTransactionStatus ==
    \E c \in Slots, transactionRef \in Refs,
       paymentReference \in PaymentReferences, paymentMethod \in PaymentMethods :
        Invoke(c, "fetchTransactionStatus",
               [transactionRef |-> transactionRef,
                paymentReference |-> paymentReference,
                paymentMethod |-> paymentMethod],
               MakeRequest("/api/v1/payment/status/" \o ToStr(transactionRef),
                           Str("POST"),
                           Obj([payment_method |-> paymentMethod,
                                reference |-> paymentReference])))

CancelTransaction ==
    \E c \in Slots, transactionRef \in Refs :
        Invoke(c, "cancelTransaction", [transactionRef |-> transactionRef],
               MakeRequest("/api/v1/payment/cancel/" \o ToStr(transactionRef),
                           Str("GET"), Undefined))

InitiateCardTransaction ==
    \E c \in Slots, request \in Requests, transactionRef \in Refs,
       card \in CardInputs, pad \in Pads :
        LET p == [request |-> request, transactionRef |-> transactionRef]
                 @@ card
        IN Invoke(c, "initiateCardTransaction", p, InitiateCardStep(p, pad))

SubmitCardOTP ==
    \E c \in Slots, transactionRef \in Refs,
       paymentReference \in PaymentReferences, otp \in Otps :
        Invoke(c, "submitCardOTP",
               [transactionRef |-> transactionRef,
                paymentReference |-> paymentReference, otp |-> otp],
               MakeRequest("/api/v1/payment/cards/otp/submit/"
                               \o ToStr(transactionRef),
                           Str("POST"),
                           Obj([otp |-> otp,
                                gatewayReference |-> paymentReference])))

ResendCardOTP ==
    \E c \in Slots, transactionRef \in Refs,
       paymentReference \in PaymentReferences :
        Invoke(c, "resendCardOTP",
               [transactionRef |-> transactionRef,
                paymentReference |-> paymentReference],
               MakeRequest("/api/v1/payment/cards/otp/resend/"
                               \o ToStr(transactionRef),
                           Str("POST"),
                           Obj([gatewayReference |-> paymentReference])))

GetCardDetails ==
    \E c \in Slots, transactionRef \in Refs :
        Invoke(c, "getCardDetails", [transactionRef |-> transactionRef],
               MakeRequest("/api/v1/payment/cards/details/"
                               \o ToStr(transactionRef),
                           Str("GET"), Undefined))

VerifyCardTransaction ==
    \E c \in Slots, transactionRef \in Refs :
        Invoke(c, "verifyCardTransaction", [transactionRef |-> transactionRef],
               MakeRequest("/api/v1/payment/cards/transaction/verify",
                           Str("POST"), Obj([reference |-> transactionRef])))

(***************************************************************************)
(* crypto.randomUUID(): sixteen random bytes, the version nibble set to 4  *)
(* and the variant bits to 10, written as lower-case hex in groups of      *)
(* 8-4-4-4-12 digits.                                                      *)
(***************************************************************************)
HexDigits == Digits \o <<"a", "b", "c", "d", "e", "f">>

ByteHex(b) == <<HexDigits[(b \div 16) + 1], HexDigits[(b % 16) + 1]>>

RECURSIVE HexOf(_)
HexOf(bytes) ==
    IF bytes = << >> THEN << >> ELSE ByteHex(Head(bytes)) \o HexOf(Tail(bytes))

\* The sixteen bytes written out without version and variant.
RandomUUIDRaw(bytes) ==
    HexOf(SubSeq(bytes, 1, 4)) \o <<"-">> \o HexOf(SubSeq(bytes, 5, 6))
        \o <<"-">> \o HexOf(SubSeq(bytes, 7, 8))
        \o <<"-">> \o HexOf(SubSeq(bytes, 9, 10))
        \o <<"-">> \o HexOf(SubSeq(bytes, 11, 16))

RandomUUID(bytes) ==
    LET b == [bytes EXCEPT ![7] = (@ % 16) + 64, ![9] = (@ % 64) + 128]
    IN HexOf(SubSeq(b, 1, 4)) \o <<"-">> \o HexOf(SubSeq(b, 5, 6))
        \o <<"-">> \o HexOf(SubSeq(b, 7, 8))
        \o <<"-">> \o HexOf(SubSeq(b, 9, 10))
        \o <<"-">> \o HexOf(SubSeq(b, 11, 16))

\* What the random source may give.
RandomBytes ==
    {[i \in 1..16 |-> v] : v \in {0, 171, 255}}
        \cup {[i \in 1..16 |-> (37 * i + 11) % 256]}

\* generatePaymentReferenceUuid(): synchronous, over when it returns.
GeneratePaymentReferenceUuid ==
    \E c \in Slots, bytes \in RandomBytes :
        Invoke(c, "generatePaymentReferenceUuid", [random |-> bytes],
               Ended(Return(Chars(RandomUUID(bytes)))))

(***************************************************************************)
(* The answers: the continuation of #makeRequest after its await.          *)
(***************************************************************************)
\* A 2xx response: #makeRequest returns response.data.
RespondOk ==
    \E c \in Slots, answer \in OkAnswers :
        /\ calls[c].phase = "awaiting"
        /\ Settle(c, answer, AfterResponse(calls[c].op, answer.data))

\* A response with another status: axios rejects with error.response set.
RespondError ==
    \E c \in Slots, answer \in ErrorAnswers :
        /\ calls[c].phase = "awaiting"
        /\ Settle(c, answer, OnErrorResponse(calls[c].url, answer))

\* No response at all: axios rejects without error.response.
RequestFails ==
    \E c \in Slots, message \in FailureMessages :
        /\ calls[c].phase = "awaiting"
        /\ Settle(c, [kind |-> "failure", message |-> message],
                  OnNoResponse(calls[c].url, message))

\* The caller has taken the outcome; the slot is free again.
Release ==
    \E c \in Slots :
        /\ calls[c].phase = "done"
        /\ calls' = [calls EXCEPT ![c] = Idle]
        /\ UNCHANGED <<snapshot, fs, client, encryptor, encOut, derived>>

(***************************************************************************)
(* #makeRequest called on its own, with any verb.                          *)
(***************************************************************************)
Verbs == {Undefined, Null, Str(""), Str("GET"), Str("POST"), Str("TRACE")}

DispatchPaths == {"/api/v1/payment/initiate", "/api/v1/payment/cancel/ref-1"}

DispatchData == {Undefined, Obj([amount |-> Str("100")])}

Dispatch ==
    \E c \in Slots, relativeUrl \in DispatchPaths, method \in Verbs,
       data \in DispatchData :
        Invoke(c, "#makeRequest",
               [relativeUrl |-> relativeUrl, method |-> method, data |-> data],
               MakeRequest(relativeUrl, method, data))

(***************************************************************************)
(* Specifications.                                                         *)
(***************************************************************************)
Init ==
    /\ snapshot \in Snapshots
    /\ \E file \in BundledKeyFiles : fs = (BundledKeyPath :> file)
    /\ client = InitializeClient(TestConfig)
    /\ calls = [c \in CallIds |-> Idle]
    /\ encryptor = NoEncryptor
    /\ encOut = NoOutcome
    /\ derived = NoOutcome

Next ==
    \/ InitiateTransaction
    \/ VerifyTransaction
    \/ InitiateBankTransfer
    \/ InitiateUssdTransaction
    \/ GetBankListForUssd
    \/ GeneratePaymentReferenceUuid
    \/ FetchTransactionDetails
    \/ FetchTransactionStatus
    \/ CancelTransaction
    \/ InitiateCardTransaction
    \/ SubmitCardOTP
    \/ ResendCardOTP
    \/ GetCardDetails
    \/ VerifyCardTransaction
    \/ RespondOk
    \/ RespondError
    \/ RequestFails
    \/ Release

Spec == Init /\ [][Next]_vars

NextDispatch == Dispatch \/ RespondOk \/ RespondError \/ RequestFails \/ Release

SpecDispatch == Init /\ [][NextDispatch]_vars

InitEnc ==
    /\ snapshot \in Snapshots
    /\ \E file \in HarnessFiles : fs = (TestKeyPath :> file)
    /\ client = InitializeClient(TestConfig)
    /\ calls = [c \in CallIds |-> Idle]
    /\ encryptor = NoEncryptor
    /\ encOut = NoOutcome
    /\ derived = NoOutcome

NextEnc == EncConstruct \/ EncEncrypt

SpecEnc == InitEnc /\ [][NextEnc]_vars

(***************************************************************************)
(* The client from its construction on, with the TLS toggle given or not.  *)
(***************************************************************************)
TlsConfigs ==
    {[baseURL |-> TestConfig.baseURL, secretKey |-> TestConfig.secretKey,
      verifySsl |-> v] : v \in {Undefined, Bool(TRUE), Bool(FALSE)}}

InitTls ==
    /\ snapshot \in Snapshots
    /\ \E file \in BundledKeyFiles : fs = (BundledKeyPath :> file)
    /\ client = Null
    /\ calls = [c \in CallIds |-> Idle]
    /\ encryptor = NoEncryptor
    /\ encOut = NoOutcome
    /\ derived = NoOutcome

\* new ErcasPay(config), while there is no client yet.
Construct ==
    \E c \in Slots, config \in TlsConfigs :
        /\ client = Null
        /\ calls[c].phase = "idle"
        /\ calls' = [calls EXCEPT ![c] =
                        Begin("constructor", config, Ended(ErcasPayNew(config)))]
        /\ client' = IF ErcasPayNew(config).kind = "return"
                      THEN ErcasPayNew(config).value
                      ELSE client
        /\ UNCHANGED <<snapshot, fs, encryptor, encOut, derived>>

\* Calls on the client once it is there.
BuiltInitiateTransaction == client # Null /\ InitiateTransaction
BuiltVerifyTransaction == client # Null /\ VerifyTransaction

NextTls ==
    \/ Construct
    \/ BuiltInitiateTransaction
    \/ BuiltVerifyTransaction
    \/ RespondOk
    \/ RespondError
    \/ RequestFails
    \/ Release

SpecTls == InitTls /\ [][NextTls]_vars

(***************************************************************************)
(* Card calls alone, over every condition of the bundled key file: absent, *)
(* unreadable, holding the generic key, holding the PKCS#1 key.            *)
(***************************************************************************)
CardKeyFiles == BundledKeyFiles \cup {File(Pem(TestKey), FALSE)}

InitCard ==
    /\ snapshot \in Snapshots
    /\ \E file \in CardKeyFiles : fs = (BundledKeyPath :> file)
    /\ client = InitializeClient(TestConfig)
    /\ calls = [c \in CallIds |-> Idle]
    /\ encryptor = NoEncryptor
    /\ encOut = NoOutcome
    /\ derived = NoOutcome

NextCard ==
    \/ InitiateCardTransaction
    \/ RespondOk
    \/ RespondError
    \/ RequestFails
    \/ Release

SpecCard == InitCard /\ [][NextCard]_vars

(***************************************************************************)
(* Several calls in flight on one client at a time.                        *)
(***************************************************************************)
MaxConcurrent == 2

ConcurrentIds == 1..MaxConcurrent

InitConcurrent ==
    /\ snapshot \in Snapshots
    /\ fs = (BundledKeyPath :> File(Pem(TestKey), TRUE))
    /\ client = InitializeClient(TestConfig)
    /\ calls = [c \in ConcurrentIds |-> Idle]
    /\ encryptor = NoEncryptor
    /\ encOut = NoOutcome
    /\ derived = NoOutcome

NextConcurrent ==
    \/ InitiateTransaction
    \/ VerifyTransaction
    \/ GetBankListForUssd
    \/ RespondOk
    \/ RespondError
    \/ RequestFails
    \/ Release

SpecConcurrent == InitConcurrent /\ [][NextConcurrent]_vars

\* The key file changes under the encryptor: it is rewritten, removed, or
\* loses its read permission.
ChangeKeyFile ==
    /\ \E file \in HarnessFiles :
          /\ file # fs[TestKeyPath]
          /\ fs' = [fs EXCEPT ![TestKeyPath] = file]
    /\ UNCHANGED <<snapshot, client, calls, encryptor, encOut, derived>>

NextEncFresh == EncConstruct \/ EncEncrypt \/ ChangeKeyFile

SpecEncFresh == InitEnc /\ [][NextEncFresh]_vars

(***************************************************************************)
(* The DTOs on their own: fromRequest on requests put together from an ip, *)
(* a headers object and a connection, each of which may be missing.        *)
(***************************************************************************)
MappedIp ==
    Chars(Ipv4MappedPrefix
          \o <<"2", "0", "3", ".", "0", ".", "1", "1", "3", ".", "5">>)
PlainIp == Chars(<<"2", "0", "3", ".", "0", ".", "1", "1", "3", ".", "5">>)
MappedForwardedIp ==
    Chars(Ipv4MappedPrefix
          \o <<"1", "9", "8", ".", "5", "1", ".", "1", "0", "0", ".", "7">>)
Ipv6Ip == Chars(<<"2", "0", "0", "1", ":", "d", "b", "8", ":", ":", "1">>)
MappedRemoteIp ==
    Chars(Ipv4MappedPrefix \o <<"1", "9", "2", ".", "0", ".", "2", ".", "4", "4">>)

RequestIps == {Undefined, Chars(<< >>), MappedIp, PlainIp, Ipv6Ip}

RequestHeaders ==
    { Undefined,
      EmptyObject,
      Obj(("user-agent" :> Str("Mozilla/5.0"))),
      Obj(("x-forwarded-for" :> MappedForwardedIp)),
      Obj(("user-agent" :> Str("curl/8.5.0"))
          @@ ("x-forwarded-for" :> PlainIp)) }

RequestConnections ==
    {Undefined, EmptyObject, Obj([remoteAddress |-> MappedRemoteIp])}

\* A request object; a part that is undefined is a property the request
\* does not have.
MakeRequestObject(ip, headers, connection) ==
    Obj([ip |-> ip, headers |-> headers, connection |-> connection])

\* Device.fromRequest(request)
DeriveDevice ==
    \E ip \in RequestIps, headers \in RequestHeaders,
       connection \in RequestConnections :
        LET request == MakeRequestObject(ip, headers, connection)
        IN /\ derived' = [op |-> "Device.fromRequest", request |-> request,
                          out |-> DeviceFromRequest(request)]
           /\ UNCHANGED <<snapshot, fs, client, calls, encryptor, encOut>>

\* PayerDeviceDto.fromRequest(request).toArray()
DerivePayerDevice ==
    \E ip \in RequestIps, headers \in RequestHeaders,
       connection \in RequestConnections :
        LET request == MakeRequestObject(ip, headers, connection)
            dto == PayerDeviceDtoFromRequest(request)
        IN /\ derived' = [op |-> "PayerDeviceDto.fromRequest", request |-> request,
                          out |-> IF dto.kind = "throw" THEN dto
                                  ELSE Return(PayerDeviceDtoToArray(dto.value))]
           /\ UNCHANGED <<snapshot, fs, client, calls, encryptor, encOut>>

NextDevice == DeriveDevice \/ DerivePayerDevice

SpecDevice == Init /\ [][NextDevice]_vars

(***************************************************************************)
(* Properties.                                                             *)
(***************************************************************************)
Live == {c \in Slots : calls[c].phase # "idle"}
Done == {c \in Slots : calls[c].phase = "done"}

IsSuccessStatus(status) == status >= 200 /\ status < 300

\* The calls whose request was answered with a status outside 2xx.
AnsweredWithError ==
    {c \in Done : /\ calls[c].answer.kind = "response"
                  /\ ~IsSuccessStatus(calls[c].answer.status)}

\* The calls whose request was answered with a 2xx status.
AnsweredOk ==
    {c \in Done : /\ calls[c].answer.kind = "response"
                  /\ IsSuccessStatus(calls[c].answer.status)}

\* The calls whose request got no response.
Unanswered == {c \in Done : calls[c].answer.kind = "failure"}

EmptyVerbs == {Undefined, Null, Str("")}

\* C1: a dispatch whose verb is undefined, null or the empty string is over
\* at once with InvalidMethodError, and has put no request on the wire, for
\* every path and body.
C1_EmptyVerbFailsWithoutRequest ==
    \A c \in Live :
        (calls[c].op = "#makeRequest" /\ calls[c].args.method \in EmptyVerbs)
            => /\ calls[c].phase = "done"
               /\ calls[c].out.kind = "throw"
               /\ calls[c].out.error.site = "InvalidMethodError"
               /\ calls[c].sent = << >>
               /\ calls[c].answer = NoAnswer

C1_Witness ==
    \E c \in Done :
        /\ calls[c].op = "#makeRequest"
        /\ calls[c].args.method = Str("")
        /\ calls[c].args.data # Undefined
        /\ calls[c].out.kind = "throw"
        /\ calls[c].out.error.message = "Method cannot be empty"
        /\ calls[c].sent = << >>

\* The path a call put in its request.
PathOf(c) == calls[c].sent[1].url

\* The body of the answer carries an error message: it is an object with a
\* non-empty `errorMessage` string.
CarriesMessage(data) ==
    /\ data.t = "object"
    /\ "errorMessage" \in DOMAIN data.v
    /\ data.v["errorMessage"].t = "string"
    /\ data.v["errorMessage"].v # ""

\* C2: whatever the body of a non-2xx answer is (an object with or without
\* the field, a string, an empty body, null), the call throws an error whose
\* message is the body's error message if it carries one, and the generic
\* message naming the call's path if not.
C2_ErrorMessageFromBodyOrGeneric ==
    \A c \in AnsweredWithError :
        /\ calls[c].out.kind = "throw"
        /\ calls[c].out.error.site = "ApiError"
        /\ calls[c].out.error.message =
              IF CarriesMessage(calls[c].answer.data)
              THEN calls[c].answer.data.v["errorMessage"].v
              ELSE "An error occurred while calling the Ercaspay API on path: "
                       \o PathOf(c)

\* C3: the error thrown for a non-2xx answer carries the status of that
\* answer as statusCode and its body as responseData.
C3_ErrorCarriesStatusAndBody ==
    \A c \in AnsweredWithError :
        /\ calls[c].out.kind = "throw"
        /\ calls[c].out.error.statusCode = Num(calls[c].answer.status)
        /\ calls[c].out.error.responseData = calls[c].answer.data

\* C4: when the request gets no response, the call throws an error with
\* status 500, no response body, and the generic message.
C4_NoResponseGives500 ==
    \A c \in Unanswered :
        /\ calls[c].out.kind = "throw"
        /\ calls[c].out.error.statusCode = Num(500)
        /\ calls[c].out.error.responseData = Null
        /\ calls[c].out.error.message =
              "An unexpected error occurred while making the API request on path: "
                  \o PathOf(c)

\* C5: a call whose request is answered with a 2xx status returns the body
\* of that answer, whatever the method and the body.
C5_SuccessReturnsBody ==
    \A c \in AnsweredOk : calls[c].out = Return(calls[c].answer.data)

\* The interface table: the verb, path and body of an operation called with
\* `a`; a body of Undefined is no body.
TableRow(method, url, data) == [method |-> method, url |-> url, data |-> data]

TableEntry(op, a) ==
    CASE op = "initiateTransaction" ->
            TableRow("post", "/api/v1/payment/initiate",
                     IF a.data.t = "undefined" THEN EmptyObject ELSE a.data)
      [] op = "verifyTransaction" ->
            TableRow("get", "/api/v1/payment/transaction/verify/"
                                \o a.transactionRef.v, Undefined)
      [] op = "initiateBankTransfer" ->
            TableRow("get", "/api/v1/payment/bank-transfer/request-bank-account/"
                                \o a.transactionRef.v, Undefined)
      [] op = "initiateUssdTransaction" ->
            TableRow("post", "/api/v1/payment/ussd/request-ussd-code/"
                                 \o a.transactionRef.v,
                     Obj([bank_name |-> a.bankName]))
      [] op = "getBankListForUssd" ->
            TableRow("get", "/api/v1/payment/ussd/supported-banks", Undefined)
      [] op = "fetchTransactionDetails" ->
            TableRow("get", "/api/v1/payment/details/" \o a.transactionRef.v,
                     Undefined)
      [] op = "fetchTransactionStatus" ->
            TableRow("post", "/api/v1/payment/status/" \o a.transactionRef.v,
                     Obj([payment_method |-> a.paymentMethod,
                          reference |-> a.paymentReference]))
      [] op = "cancelTransaction" ->
            TableRow("get", "/api/v1/payment/cancel/" \o a.transactionRef.v,
                     Undefined)
      [] op = "submitCardOTP" ->
            TableRow("post", "/api/v1/payment/cards/otp/submit/"
                                 \o a.transactionRef.v,
                     Obj([otp |-> a.otp, gatewayReference |-> a.paymentReference]))
      [] op = "resendCardOTP" ->
            TableRow("post", "/api/v1/payment/cards/otp/resend/"
                                 \o a.transactionRef.v,
                     Obj([gatewayReference |-> a.paymentReference]))
      [] op = "getCardDetails" ->
            TableRow("get", "/api/v1/payment/cards/details/"
                                \o a.transactionRef.v, Undefined)
      [] op = "verifyCardTransaction" ->
            TableRow("post", "/api/v1/payment/cards/transaction/verify",
                     Obj([reference |-> a.transactionRef]))

ThinOperations ==
    {"initiateTransaction", "verifyTransaction", "initiateBankTransfer",
     "initiateUssdTransaction", "getBankListForUssd", "fetchTransactionDetails",
     "fetchTransactionStatus", "cancelTransaction", "submitCardOTP",
     "resendCardOTP", "getCardDetails", "verifyCardTransaction"}

\* C6: each of the twelve thin operations puts exactly one request on the
\* wire, with the verb, path and body of its row of the interface table (the
\* reference last in the path, no body on GET, the listed fields from the
\* parameters on POST); a card initiation that gets as far as its request
\* sends one POST to /api/v1/payment/cards/initialize whose body has the
\* fields transactionReference, payload and deviceDetails.
C6_RequestsFollowInterfaceTable ==
    \A c \in Live :
        /\ calls[c].op \in ThinOperations =>
              /\ Len(calls[c].sent) = 1
              /\ LET row == TableEntry(calls[c].op, calls[c].args)
                     req == calls[c].sent[1]
                 IN /\ req.method = row.method
                    /\ req.url = row.url
                    /\ req.data = row.data
        /\ (calls[c].op = "initiateCardTransaction" /\ calls[c].sent # << >>) =>
              /\ Len(calls[c].sent) = 1
              /\ calls[c].sent[1].method = "post"
              /\ calls[c].sent[1].url = "/api/v1/payment/cards/initialize"
              /\ calls[c].sent[1].data.t = "object"
              /\ DOMAIN calls[c].sent[1].data.v =
                    {"transactionReference", "payload", "deviceDetails"}

C6_Witness ==
    /\ \E c \in Live :
          /\ calls[c].op = "fetchTransactionStatus"
          /\ calls[c].phase = "awaiting"
          /\ calls[c].sent[1].url =
                "/api/v1/payment/status/ERCS|20241214202721|1734204441927"
          /\ calls[c].sent[1].data =
                Obj([payment_method |-> Str("bank-transfer"),
                     reference |-> Str("ERCS|20241214202721|GW-77")])

\* The card initiations that got as far as their request.
CardRequests ==
    {c \in Live : calls[c].op = "initiateCardTransaction" /\ calls[c].sent # << >>}

\* The fixed shape payerDeviceDto -> device -> {browser, browserDetails,
\* ipAddress}.
HasDeviceShape(d) ==
    /\ d.t = "object"
    /\ DOMAIN d.v = {"payerDeviceDto"}
    /\ d.v["payerDeviceDto"].t = "object"
    /\ DOMAIN d.v["payerDeviceDto"].v = {"device"}
    /\ d.v["payerDeviceDto"].v["device"].t = "object"
    /\ DOMAIN d.v["payerDeviceDto"].v["device"].v =
          {"browser", "browserDetails", "ipAddress"}

\* C7: the request of initiateCardTransaction is one POST to
\* /api/v1/payment/cards/initialize whose body holds the caller's reference
\* as transactionReference, an output of the encryptor for the supplied card
\* fields as payload, and the device details in the fixed nested shape.
C7_CardRequestBody ==
    \A c \in CardRequests :
        LET req == calls[c].sent[1]
            a == calls[c].args
        IN /\ Len(calls[c].sent) = 1
           /\ req.method = "post"
           /\ req.url = "/api/v1/payment/cards/initialize"
           /\ DOMAIN req.data.v =
                 {"transactionReference", "payload", "deviceDetails"}
           /\ req.data.v["transactionReference"] = a.transactionRef
           /\ \E pad \in Pads :
                 Return(req.data.v["payload"]) =
                    CardEncryptorEncrypt([publicKeyPath |-> BundledKeyPath],
                                         CardParams(a), pad)
           /\ HasDeviceShape(req.data.v["deviceDetails"])

\* The key file of the encryptor harness is missing.
KeyFileMissing == ~fs[TestKeyPath].exists

\* C8: with no file at the key path, the constructor throws KeyNotFound,
\* no encryptor comes to exist, and so nothing is ever read or encrypted.
C8_MissingKeyFailsConstruction ==
    KeyFileMissing =>
        /\ ~encryptor.bound
        /\ encOut.op # "encrypt"
        /\ encOut.op = "new" =>
              /\ encOut.out.kind = "throw"
              /\ encOut.out.error.site = "KeyNotFound"

C8_Witness ==
    /\ KeyFileMissing
    /\ encOut.op = "new"
    /\ encOut.out.kind = "throw"
    /\ encOut.out.error.message
          = "Public key file not found: tests/test_public_key.pem"

\* The number of bytes of the JSON text of card fields that are all strings
\* of ASCII characters: the braces, and for each field its quoted name, the
\* colon, its quoted value, and a comma between two fields.
RECURSIVE FieldBytes(_)
FieldBytes(props) ==
    IF props = << >> THEN 0
    ELSE Len(Head(props).k) + Len(Head(props).v.c) + 5 + FieldBytes(Tail(props))

JsonBytes(props) == 2 + FieldBytes(props) + (Len(props) - 1)

\* The key file of the harness holds the PEM of `key`, bare or laid out as
\* the test writes it.
Holds(file, key) ==
    /\ file.exists
    /\ \/ file.text = Pem(key)
       \/ file.text = <<"\n", "    ">> \o Pem(key) \o <<"\n">>

\* An encrypt call of the harness on a readable file that holds `key`.
EncryptedWith(key) ==
    /\ encOut.op = "encrypt"
    /\ Holds(encOut.key, key)
    /\ encOut.key.readable

IsBase64Text(x) ==
    /\ IsChars(x)
    /\ x.c # << >>
    /\ \A i \in 1..Len(x.c) :
          \/ x.c[i] = "="
          \/ \E j \in 1..64 : Base64Alphabet[j] = x.c[i]

\* C9: with a readable file holding a valid RSA public key, encrypting card
\* fields whose JSON text fits the key returns a non-empty string over
\* [A-Za-z0-9+/=] whose length is the base64 length of the modulus size,
\* 344 characters for 2048 bits, whatever the card fields are.
C9_EncryptReturnsBase64OfModulusLength ==
    \A key \in KnownKeys :
        (EncryptedWith(key)
            /\ JsonBytes(encOut.cardParams) <= key.bits \div 8 - 11)
        => /\ encOut.out.kind = "return"
           /\ IsBase64Text(encOut.out.value)
           /\ Len(encOut.out.value.c) = 4 * ((key.bits \div 8 + 2) \div 3)
           /\ key.bits = 2048 => Len(encOut.out.value.c) = 344

\* C10 as stated: the limit of a 2048-bit key is 190 bytes, so a JSON text of
\* more than 190 bytes fails with EncryptionError under such a key.
C10_LimitOf190Bytes ==
    \A key \in KnownKeys :
        (EncryptedWith(key) /\ key.bits = 2048
            /\ JsonBytes(encOut.cardParams) > 190)
        => /\ encOut.out.kind = "throw"
           /\ encOut.out.error.site = "EncryptionError"

\* C10, amended: with a readable file holding an RSA key of k bytes, a JSON
\* text of more than k - 11 bytes (245 for 2048 bits, 117 for 1024 bits)
\* fails with EncryptionError, and whenever encrypt returns, the whole JSON
\* text fitted the key: nothing is cut.
C10_TooLongFailsWithEncryptionError ==
    \A key \in KnownKeys :
        EncryptedWith(key) =>
            /\ JsonBytes(encOut.cardParams) > key.bits \div 8 - 11 =>
                  /\ encOut.out.kind = "throw"
                  /\ encOut.out.error.site = "EncryptionError"
            /\ encOut.out.kind = "return" =>
                  JsonBytes(encOut.cardParams) <= key.bits \div 8 - 11

C10_Witness ==
    /\ EncryptedWith(TestKey)
    /\ JsonBytes(encOut.cardParams) = 246
    /\ encOut.out.kind = "throw"
    /\ encOut.out.error.message =
          "Encryption failed: error:0200006E:rsa routines::data too large for key size"

(***************************************************************************)
(* The other side of the encryption: what the holder of the private key    *)
(* does with the output of encrypt.                                        *)
(***************************************************************************)
\* The six bits a base64 character stands for.
Base64Value(c) ==
    IF c = "=" THEN 0
    ELSE (CHOOSE j \in 1..64 : Base64Alphabet[j] = c) - 1

Base64Padding(chars) ==
    IF Len(chars) >= 2 /\ chars[Len(chars) - 1] = "=" THEN 2
    ELSE IF Len(chars) >= 1 /\ chars[Len(chars)] = "=" THEN 1
    ELSE 0

\* Buffer.from(text, 'base64')
FromBase64(chars) ==
    [i \in 1..(3 * (Len(chars) \div 4) - Base64Padding(chars)) |->
        LET q == (i - 1) \div 3
            r == (i - 1) % 3
            word == Base64Value(chars[4 * q + 1]) * 262144
                    + Base64Value(chars[4 * q + 2]) * 4096
                    + Base64Value(chars[4 * q + 3]) * 64
                    + Base64Value(chars[4 * q + 4])
        IN CASE r = 0 -> word \div 65536
             [] r = 1 -> (word \div 256) % 256
             [] OTHER -> word % 256]

\* The private-key operation that undoes the key's permutation.
RsaInverse(key, cipher) ==
    [i \in 1..Len(cipher) |-> (cipher[i] + 512 - key.mask - i) % 256]

\* crypto.privateDecrypt with RSA_PKCS1_PADDING: the block has to read
\* 00 02, at least eight nonzero bytes, 00, and then the message.
PrivateDecrypt(key, cipher) ==
    LET block == RsaInverse(key, cipher)
        zeros == {i \in 3..Len(block) : block[i] = 0}
    IN IF Len(block) # key.bits \div 8 \/ block[1] # 0 \/ block[2] # 2
          \/ zeros = {}
       THEN Fail("error:02000084:rsa routines::data too large for modulus")
       ELSE LET sep == CHOOSE i \in zeros : \A j \in zeros : i <= j
            IN IF sep < 11
               THEN Fail("error:0200009F:rsa routines::pkcs decoding error")
               ELSE Ok(SubSeq(block, sep + 1, Len(block)))

\* The UTF-8 bytes of {"pan":"41...1","expiryDate":"1225","cvv":"123",
\* "pin":"1234"} for a card number of n digits, written out byte by byte.
CardJsonBytes(n) ==
    <<123, 34, 112, 97, 110, 34, 58, 34, 52>> \o [i \in 1..(n - 1) |-> 49]
    \o <<34, 44, 34, 101, 120, 112, 105, 114, 121, 68, 97, 116, 101, 34, 58,
         34, 49, 50, 50, 53, 34, 44, 34, 99, 118, 118, 34, 58, 34, 49, 50, 51,
         34, 44, 34, 112, 105, 110, 34, 58, 34, 49, 50, 51, 52, 34, 125>>

PanDigits == Len(encOut.cardParams[1].v.c)

\* C11: whenever encrypt returns under a 2048-bit key, decoding its output
\* from base64 and decrypting it with the matching private key under
\* PKCS#1 v1.5 padding gives exactly the UTF-8 bytes of the JSON text of the
\* card fields {pan, expiryDate, cvv, pin}.
C11_DecryptGivesCardJson ==
    \A key \in KnownKeys :
        (EncryptedWith(key) /\ key.bits = 2048 /\ encOut.out.kind = "return")
        => PrivateDecrypt(key, FromBase64(encOut.out.value.c))
              = Ok(CardJsonBytes(PanDigits))

C11_Witness ==
    /\ EncryptedWith(TestKey)
    /\ PanDigits = 16
    /\ encOut.out.kind = "return"
    /\ Len(encOut.out.value.c) = 344
    /\ PrivateDecrypt(TestKey, FromBase64(encOut.out.value.c)).ok

\* A card field the caller left out or left empty.
Missing(x) == x.t # "string" \/ x.c = << >>

\* The card fields of an initiateCardTransaction call are not all there.
IncompleteCard(p) ==
    \/ Missing(p.cardNumber)
    \/ Missing(p.cardCvv)
    \/ Missing(p.pin)
    \/ Missing(p.cardExpiryMonth)
    \/ Missing(p.cardExpiryYear)

\* C12: a card-initiate call in which one of pan, expiry date, cvv or pin is
\* absent or empty fails fast: it sends no request (so no ciphertext of a
\* partial record leaves the client) and ends with an error.
C12_IncompleteCardFailsFast ==
    \A c \in Live :
        (calls[c].op = "initiateCardTransaction" /\ IncompleteCard(calls[c].args))
        => /\ calls[c].sent = << >>
           /\ calls[c].phase = "done" => calls[c].out.kind = "throw"

\* A device derivation has run on a request.
DeviceDerived == derived.op = "Device.fromRequest"

\* The parts of the request the derivation may look at.
RequestIp == Get(derived.request, "ip")
RequestHeader(name) == Get(Get(derived.request, "headers"), name)
RequestRemote == Get(Get(derived.request, "connection"), "remoteAddress")

IsString(x) == x.t = "string"
NonEmptyString(x) == IsString(x) /\ (IF IsChars(x) THEN x.c # << >> ELSE x.v # "")

\* C13: deriving DeviceInfo from any request succeeds and gives a non-null
\* ipAddress and a browser string; a request without any IP gets the
\* default address, a request without user-agent header gets "Unknown".
C13_DeviceHasIpAndBrowser ==
    DeviceDerived =>
        /\ derived.out.kind = "return"
        /\ ~IsNullish(derived.out.value.ipAddress)
        /\ IsString(derived.out.value.browser)
        /\ (~NonEmptyString(RequestIp)
                /\ ~NonEmptyString(RequestHeader("x-forwarded-for"))
                /\ ~NonEmptyString(RequestRemote))
           => derived.out.value.ipAddress = Localhost
        /\ ~NonEmptyString(RequestHeader("user-agent"))
           => derived.out.value.browser = Str("Unknown")

\* The IP value of the request: its ip, or else its forwarded-for header.
IpValue ==
    IF NonEmptyString(RequestIp) THEN RequestIp
    ELSE RequestHeader("x-forwarded-for")

StartsWithMappedPrefix(chars) ==
    /\ Len(chars) >= 7
    /\ SubSeq(chars, 1, 7) = <<":", ":", "f", "f", "f", "f", ":">>

\* C14: when the request has an IP value, the derived ipAddress is that
\* value without a leading "::ffff:", and the value itself when it does not
\* start with that prefix.
C14_MappedPrefixStripped ==
    (DeviceDerived /\ NonEmptyString(IpValue)) =>
        /\ derived.out.kind = "return"
        /\ derived.out.value.ipAddress =
              IF StartsWithMappedPrefix(IpValue.c)
              THEN Chars(SubSeq(IpValue.c, 8, Len(IpValue.c)))
              ELSE IpValue

UuidCalls == {c \in Live : calls[c].op = "generatePaymentReferenceUuid"}

\* ^[0-9a-f]{8}-[0-9a-f]{4}-4[0-9a-f]{3}-[89ab][0-9a-f]{3}-[0-9a-f]{12}$
MatchesUuidV4(chars) ==
    /\ Len(chars) = 36
    /\ \A i \in 1..36 :
          CASE i \in {9, 14, 19, 24} -> chars[i] = "-"
            [] i = 15 -> chars[i] = "4"
            [] i = 20 -> chars[i] \in {"8", "9", "a", "b"}
            [] OTHER -> chars[i] \in {"0", "1", "2", "3", "4", "5", "6", "7",
                                      "8", "9", "a", "b", "c", "d", "e", "f"}

\* C15: every call of generatePaymentReferenceUuid returns a string that
\* matches the UUID-v4 pattern, has sent no request, and leaves the client
\* configuration as the constructor made it.
C15_UuidIsLocalAndV4 ==
    \A c \in UuidCalls :
        /\ calls[c].phase = "done"
        /\ calls[c].out.kind = "return"
        /\ IsChars(calls[c].out.value)
        /\ MatchesUuidV4(calls[c].out.value.c)
        /\ calls[c].sent = << >>
        /\ client = InitializeClient(TestConfig)

C15_Witness ==
    \E c \in UuidCalls :
        /\ calls[c].args.random = [i \in 1..16 |-> 255]
        /\ calls[c].out.value.c[1] = "f"
        /\ calls[c].out.value.c[15] = "4"
        /\ calls[c].out.value.c[20] = "b"

\* The letters RSA occur in the key's base64 body.
RsaInBody(key) == \E i \in 1..Len(key.body) : key.body[i] = "RSA"

\* C16: a readable key file in either PEM style, "RSA PUBLIC KEY" markers or
\* generic "PUBLIC KEY" markers, is accepted: encrypting card fields that
\* fit the key returns a ciphertext instead of failing on the key.
C16_BothPemStylesAccepted ==
    \A key \in KnownKeys :
        (EncryptedWith(key) /\ ~RsaInBody(key)
            /\ key.form \in {"spki", "pkcs1"}
            /\ JsonBytes(encOut.cardParams) <= key.bits \div 8 - 11)
        => encOut.out.kind = "return"

\* An encrypt call of the harness, made when the disk held some file.
Encrypted == encOut.op = "encrypt"

\* C17: every encrypt call works from the key file as it is on disk at the
\* moment of the call, whatever the file was when the encryptor was
\* constructed: if the file is unreadable or gone the call fails with
\* KeyReadError, and if it holds a key the ciphertext is one that the
\* private key of that very key decrypts to the card's JSON text.
C17_KeyReadOnEveryEncrypt ==
    Encrypted =>
        /\ ~(encOut.key.exists /\ encOut.key.readable) =>
              /\ encOut.out.kind = "throw"
              /\ encOut.out.error.site = "KeyReadError"
        /\ \A key \in KnownKeys :
              (EncryptedWith(key) /\ ~RsaInBody(key) /\ key.form = "spki"
                  /\ JsonBytes(encOut.cardParams) <= key.bits \div 8 - 11)
              => /\ encOut.out.kind = "return"
                 /\ PrivateDecrypt(key, FromBase64(encOut.out.value.c))
                       = Ok(CardJsonBytes(PanDigits))

C17_Witness ==
    /\ Encrypted
    /\ encryptor.madeWith = File(TestKeyFileText, TRUE)
    /\ encOut.key = File(TestKeyFileText, FALSE)
    /\ encOut.out.kind = "throw"
    /\ encOut.out.error.site = "KeyReadError"

\* The calls whose request failed: answered outside 2xx, or not at all.
Failed == AnsweredWithError \cup Unanswered

\* C18: no call ever has more than one request on the wire, and a call whose
\* request failed is over with an error thrown to the caller: still one
\* request only, and no value returned.
C18_OneRequestNoRetry ==
    \A c \in Live :
        /\ Len(calls[c].sent) <= 1
        /\ c \in Failed =>
              /\ Len(calls[c].sent) = 1
              /\ calls[c].out.kind = "throw"

C18_Witness ==
    \E c \in Unanswered :
        /\ calls[c].op = "initiateTransaction"
        /\ Len(calls[c].sent) = 1
        /\ calls[c].out.kind = "throw"

\* Two calls that were made alike and answered alike.
SameCall(c, d) ==
    /\ calls[c].op = calls[d].op
    /\ calls[c].args = calls[d].args
    /\ calls[c].answer = calls[d].answer

\* The outcome of a finished call goes with the answer to its own request.
OwnAnswer(c) ==
    /\ (c \in AnsweredOk /\ calls[c].answer.data # Null) =>
          calls[c].out = Return(calls[c].answer.data)
    /\ c \in Failed => calls[c].out.kind = "throw"
    /\ calls[c].op = "verifyTransaction" =>
          calls[c].sent[1].url = "/api/v1/payment/transaction/verify/"
                                     \o calls[c].args.transactionRef.v

\* A step touches one call only.
OneCallPerStep ==
    \A c \in Slots :
        calls'[c] # calls[c] => \A d \in Slots \ {c} : calls'[d] = calls[d]

\* C19: with several calls in flight on one client, in every interleaving:
\* the client configuration stays what the constructor made it, a finished
\* call's outcome goes with its own arguments and the answer to its own
\* request (two calls made alike and answered alike end alike), and a step
\* of one call leaves every other call as it was.
C19_CallsDoNotInterfere ==
    /\ [](/\ client = InitializeClient(TestConfig)
          /\ \A c \in Done : OwnAnswer(c)
          /\ \A c \in Done : \A d \in Done :
                SameCall(c, d) => /\ calls[c].out = calls[d].out
                                  /\ calls[c].sent = calls[d].sent)
    /\ [][OneCallPerStep]_vars

C19_Witness ==
    /\ calls[1].phase = "awaiting"
    /\ calls[1].op = "verifyTransaction"
    /\ calls[2].phase = "done"
    /\ calls[2].op = "verifyTransaction"
    /\ calls[2].args.transactionRef # calls[1].args.transactionRef
    /\ calls[2].answer.kind = "response"
    /\ calls[2].answer.status = 400
    /\ calls[2].out.kind = "throw"

\* The headers of a request are the three fixed ones, with the credential
\* the client was constructed with.
HasFixedHeaders(req) ==
    /\ DOMAIN req.headers = {"Authorization", "Accept", "Content-Type"}
    /\ req.headers["Authorization"] =
          "Bearer ECRS-TEST-SK9suJneFkk1o8gBaUmOHCBIt9jRWN88QbaKAvoBRu"
    /\ req.headers["Accept"] = "application/json"
    /\ req.headers["Content-Type"] = "application/json"

\* C20: every request any call has put on the wire, GET or POST, carries
\* Authorization: Bearer <secretKey of the constructor>, Accept:
\* application/json and Content-Type: application/json.
C20_FixedHeadersOnEveryRequest ==
    \A c \in Live :
        \A i \in 1..Len(calls[c].sent) : HasFixedHeaders(calls[c].sent[i])

C20_Witness ==
    \E c \in Live :
        /\ calls[c].op = "cancelTransaction"
        /\ calls[c].sent # << >>
        /\ calls[c].sent[1].method = "get"
        /\ HasFixedHeaders(calls[c].sent[1])

Constructions == {c \in Done : calls[c].op = "constructor"}

\* The agent a client is to send its requests through: one that does not
\* reject unauthorized certificates when the toggle is false, and the
\* default agent, which verifies, when it is true or not given.
ToggledAgent(config) ==
    IF config.verifySsl = Bool(FALSE)
    THEN Obj([rejectUnauthorized |-> Bool(FALSE)])
    ELSE Undefined

\* C21: constructing a client succeeds whatever the TLS toggle is, and the
\* client sends its requests without certificate verification when the
\* toggle is false and with verification when it is true or omitted.
C21_TlsToggleHonoured ==
    /\ \A c \in Constructions :
          /\ calls[c].out.kind = "return"
          /\ client.httpsAgent = ToggledAgent(calls[c].args)
    /\ \A c \in Live :
          \A i \in 1..Len(calls[c].sent) :
              calls[c].sent[i].httpsAgent = client.httpsAgent

(***************************************************************************)
(* What initiateCardTransaction and #makeRequest hand to the logger in the *)
(* course of one card call, in order.  CardEncryptor logs nothing.         *)
(***************************************************************************)
LogRecord(level, message, meta) ==
    [level |-> level, message |-> message, meta |-> meta]

\* The level of the progress messages: debug in snapshot A, info in B.
LogLevel == IF snapshot = "A" THEN "debug" ELSE "info"

\* A card log whose first record also carries the card number.
CardLogBeforeWithCard(p, sent) ==
    <<LogRecord(LogLevel, "Initiating card transaction",
                Obj([transactionRef |-> p.transactionRef,
                     cardNumber |-> p.cardNumber]))>>

\* The records up to the await of the request; `sent` is what the call has
\* put on the wire.
CardLogBefore(p, sent) ==
    <<LogRecord(LogLevel, "Initiating card transaction",
                Obj([transactionRef |-> p.transactionRef]))>>
    \o (IF snapshot = "B" THEN << >>
        ELSE LET dto == PayerDeviceDtoFromRequest(p.request)
             IN IF dto.kind = "throw" THEN << >>
                ELSE <<LogRecord("debug", "Device details captured",
                                 DeviceDetails(dto.value))>>)
    \o (IF sent = << >> THEN << >>
        ELSE <<LogRecord(LogLevel, "Making API request",
                         IF snapshot = "A"
                         THEN Obj([url |-> Str(sent[1].url), method |-> Str("POST")])
                         ELSE Obj([url |-> Str(sent[1].url), method |-> Str("POST"),
                                   data |-> sent[1].data]))>>)

\* The records after the await, by what came back.
CardLogAfter(p, answer) ==
    CASE answer.kind = "failure" ->
            <<LogRecord("error", "API request error", Str(answer.message))>>
      [] answer.kind = "response" /\ ~IsSuccessStatus(answer.status) ->
            <<LogRecord("error", "API error response",
                        Obj([data |-> answer.data, status |-> Num(answer.status)]))>>
      [] answer.kind = "response" /\ IsSuccessStatus(answer.status) ->
            <<LogRecord(LogLevel, "API request successful", Undefined),
              LogRecord(LogLevel, "Card transaction initiated successfully",
                        IF snapshot = "A"
                        THEN Obj([transactionRef |-> p.transactionRef])
                        ELSE Obj([response |-> answer.data]))>>
      [] OTHER -> << >>

\* The log of a card call that has got as far as `sent` and `answer`.
CardLog(p, sent, answer) == CardLogBefore(p, sent) \o CardLogAfter(p, answer)

CardCalls == {c \in Live : calls[c].op = "initiateCardTransaction"}

AnswerOf(c) == IF calls[c].phase = "done" THEN calls[c].answer ELSE NoAnswer

\* The log of the card call in slot c.
LogOf(c) == CardLog(calls[c].args, calls[c].sent, AnswerOf(c))

\* The primitive values somewhere inside a value.
RECURSIVE Leaves(_)
Leaves(x) ==
    IF x.t = "object" THEN UNION {Leaves(x.v[k]) : k \in DOMAIN x.v} ELSE {x}

\* The card fields of a call, as the caller gave them and as the encryptor
\* gets them: number, cvv, pin, expiry parts, expiry date and the JSON text.
CardSecrets(p) ==
    {x \in {p.cardNumber, p.cardCvv, p.pin, p.cardExpiryMonth, p.cardExpiryYear,
            Chars(ToChars(p.cardExpiryMonth) \o ToChars(p.cardExpiryYear)),
            Chars(JSONStringify(CardParams(p)))} : x.t = "string"}

\* A log record with the encrypted payload blanked out.
Blanked(r) ==
    IF /\ r.meta.t = "object"
       /\ "data" \in DOMAIN r.meta.v
       /\ r.meta.v["data"].t = "object"
       /\ "payload" \in DOMAIN r.meta.v["data"].v
    THEN [r EXCEPT !.meta.v["data"].v["payload"] = Str("*")]
    ELSE r

BlankedLog(log) == [i \in 1..Len(log) |-> Blanked(log[i])]

\* The arguments of a card call with the card fields exchanged.
WithCard(p, card) ==
    [request |-> p.request, transactionRef |-> p.transactionRef] @@ card

\* The request of a card call holds the reference, the payload and the
\* device details, and nothing else: of the card it has the payload only.
CardOnlyInPayload(c) ==
    LET data == calls[c].sent[1].data.v
    IN /\ DOMAIN data = {"transactionReference", "payload", "deviceDetails"}
       /\ data["transactionReference"] = calls[c].args.transactionRef
       /\ Leaves(data["deviceDetails"]) \cap CardSecrets(calls[c].args) = {}

SentCardCalls == {c \in CardCalls : calls[c].sent # << >>}

Plaintext(c) ==
    PrivateDecrypt(TestKey, FromBase64(calls[c].sent[1].data.v["payload"].c))

\* The characters of a card argument; none for an argument that is no string.
ArgChars(x) == IF x.t = "string" THEN x.c ELSE << >>

Word(chars) == <<"\"">> \o chars \o <<"\"">>

\* {"cvv":"<cvv>","pin":"<pin>","expiryDate":"<month><year>","pan":"<number>"}
CardText(p) ==
    <<"{">> \o Word(CvvKey) \o <<":">> \o Word(ArgChars(p.cardCvv))
    \o <<",">> \o Word(PinKey) \o <<":">> \o Word(ArgChars(p.pin))
    \o <<",">> \o Word(ExpiryDateKey) \o <<":">>
    \o Word(ArgChars(p.cardExpiryMonth) \o ArgChars(p.cardExpiryYear))
    \o <<",">> \o Word(PanKey) \o <<":">> \o Word(ArgChars(p.cardNumber))
    \o <<"}">>

\* The text is the JSON object with the keys cvv, pin, expiryDate, pan in
\* this order, expiryDate being month and year with nothing in between.
OrderedCardText(c) ==
    /\ Plaintext(c).ok
    /\ Plaintext(c).value = BufferFrom(CardText(calls[c].args))

\* The expiry date that went into the text has the four characters of MMYY.
ExpiryIsMMYY(c) ==
    /\ Len(ArgChars(calls[c].args.cardExpiryMonth)) = 2
    /\ Len(ArgChars(calls[c].args.cardExpiryYear)) = 2

\* C23: the plaintext that initiateCardTransaction encrypts is the JSON
\* object with the keys cvv, pin, expiryDate, pan in this order, where
\* expiryDate is the month string directly followed by the year string, and
\* has the four characters of the MMYY form.
C23_PlaintextIsOrderedMMYY ==
    \A c \in SentCardCalls : OrderedCardText(c) /\ ExpiryIsMMYY(c)

\* The two parts one by one: the order on the cards with all fields, the
\* length of the expiry date on every card.
OrderOnCompleteCards ==
    \A c \in SentCardCalls :
        ~IncompleteCard(calls[c].args) => OrderedCardText(c)

MMYYOnAllCards == \A c \in SentCardCalls : ExpiryIsMMYY(c)

\* The bundled key file of the running client.
BundledKey == fs[BundledKeyPath]

\* The card call in slot c is over with the error e, and has sent nothing.
EndedWith(c, site) ==
    /\ calls[c].phase = "done"
    /\ calls[c].out.kind = "throw"
    /\ calls[c].out.error.site = site
    /\ calls[c].sent = << >>

\* The device derivation of the call in slot c.
DeviceOf(c) == PayerDeviceDtoFromRequest(calls[c].args.request)

\* C24: initiateCardTransaction derives the device details first, encrypts
\* the card second and issues the request last.  A failing device
\* derivation ends the call with its own error whatever the key file is
\* like; otherwise a missing key file ends it with KeyNotFound, an
\* unreadable one with KeyReadError, a failing encryption with
\* EncryptionError; in each of these cases the error is the call's outcome
\* and no request is issued.  A request that is issued carries the device
\* details and the ciphertext.
C24_DeviceThenEncryptThenRequest ==
    \A c \in CardCalls :
        LET device == DeviceOf(c)
        IN /\ device.kind = "throw"
                 => /\ calls[c].phase = "done"
                    /\ calls[c].out = device
                    /\ calls[c].sent = << >>
           /\ (device.kind = "return" /\ ~BundledKey.exists)
                 => EndedWith(c, "KeyNotFound")
           /\ (device.kind = "return" /\ BundledKey.exists /\ ~BundledKey.readable)
                 => EndedWith(c, "KeyReadError")
           /\ (device.kind = "return" /\ Holds(BundledKey, Pkcs1Key))
                 => EndedWith(c, "EncryptionError")
           /\ (calls[c].phase = "done" /\ calls[c].out.kind = "throw"
               /\ calls[c].out.error.site
                     \in {"KeyNotFound", "KeyReadError", "EncryptionError"})
                 => calls[c].sent = << >>
           /\ calls[c].sent # << >>
                 => /\ Len(calls[c].sent) = 1
                    /\ device.kind = "return"
                    /\ calls[c].sent[1].data.v["deviceDetails"]
                          = DeviceDetails(device.value)
                    /\ IsChars(calls[c].sent[1].data.v["payload"])
                    /\ Len(calls[c].sent[1].data.v["payload"].c) = 344

\* A call whose request is unusable and whose key file is missing: the
\* device error is the outcome, not KeyNotFound.
C24_Witness ==
    \E c \in CardCalls :
        /\ DeviceOf(c).kind = "throw"
        /\ ~BundledKey.exists
        /\ calls[c].phase = "done"
        /\ calls[c].out = DeviceOf(c)
        /\ calls[c].out.error.site # "KeyNotFound"
        /\ calls[c].sent = << >>

\* C25: the normalization of the key text changes nothing but the markers:
\* for a readable key file in the generic "PUBLIC KEY" form, the text that
\* encrypt hands to the RSA import is the file's content without the
\* whitespace around it, whatever the base64 body is, a body that contains
\* the letters RSA included.
C25_GenericKeyTextUnchanged ==
    \A key \in KnownKeys :
        (EncryptedWith(key) /\ key.form = "spki")
        => /\ NormalizePem(encOut.key.text) = Trim(encOut.key.text)
           /\ NormalizePem(encOut.key.text) = Pem(key)

\* The same on the generic keys whose body is free of the letters RSA.
GenericKeyTextUnchangedWithoutRsa ==
    \A key \in KnownKeys :
        (EncryptedWith(key) /\ key.form = "spki" /\ ~RsaInBody(key))
        => /\ NormalizePem(encOut.key.text) = Trim(encOut.key.text)
           /\ NormalizePem(encOut.key.text) = Pem(key)

====
